---- MODULE Spec2Model ----
(***************************************************************************)
(* JumpDiffusionEngine::calculate (Merton 1976 jump-diffusion engine) of   *)
(* ql/PricingEngines/Vanilla/jumpdiffusionengine.cpp as a state machine.   *)
(*                                                                         *)
(* One call of calculate() is followed statement by statement (pc).  The   *)
(* collaborators that are not part of the file (the base engine, the       *)
(* curves, the Poisson distribution) are kept at their interface: the base *)
(* engine returns any of a few result records, the Poisson mass function   *)
(* returns any positive weight below one (and the point mass when its mean *)
(* is zero).  The collaborators are taken to return normally.              *)
(*                                                                         *)
(* Numbers.  Reals are fixed point with unit One (One stands for 1.0).     *)
(* A quotient a/b is kept as the pair <<a, b>> and never reduced, so that  *)
(* a zero divisor stays visible: <<a, 0>> is what IEEE-754 returns for a   *)
(* division by zero (an infinity when a # 0, NaN when a = 0), and the      *)
(* comparison Greater treats it as the hardware does (every comparison     *)
(* with NaN is false).                                                     *)
(***************************************************************************)
EXTENDS Integers, Sequences, FiniteSets, TLC

VARIABLES
    arguments_,        \* the option's arguments: the process and its curves
    relativeAccuracy_, \* constructor argument, a quotient <<num, den>>
    maxIterations_,    \* constructor argument (Size)
    baseEngine_,       \* the diffusion-only engine: arguments, results, calls
    results_,          \* the engine's seven result fields
    pc,                \* position inside calculate()
    jd,                \* the scalars computed once from the process
    i,                 \* loop counter
    r,                 \* scenario rate, a quotient
    v,                 \* scenario volatility: the quotient under QL_SQRT
    weight,            \* p(i) of the current scenario
    lastContribution,  \* a quotient
    failure,           \* message of the error the call ended with, or "none"
    history,           \* scenarios accumulated so far: <<[weight, base]>>
    initial            \* results_ and baseEngine_ as they were before the call

vars == <<arguments_, relativeAccuracy_, maxIterations_, baseEngine_, results_,
          pc, jd, i, r, v, weight, lastContribution, failure, history, initial>>

inputs == <<arguments_, relativeAccuracy_, maxIterations_, initial>>

----------------------------------------------------------------------------
(* Bounds and input sets *)

MaxIterations == 3

MaxTime == 1

One == 8

Fields == {"value", "delta", "gamma", "theta", "vega", "rho", "dividendRho"}

NotJumpDiffusion == "not a jump diffusion process"

AccuracyNotReached == "iterations have been not enough to reach the required accuracy"

ProcessKinds == {"Merton76", "BlackScholes"}

\* <<logJumpMean, logJumpVolatility>>
JumpParameters == {<<0, 0>>, <<-2, 2>>, <<0, 2>>}

JumpIntensities == {0, 1}

\* 0, 0.25, 0.5, 1.0 and 2.0
RelativeAccuracies == {<<0, 1>>, <<1, 4>>, <<1, 2>>, <<1, 1>>, <<2, 1>>}

\* what the base engine may return for one scenario
BaseResults ==
    { [value |-> 0, delta |-> 0, gamma |-> 0, theta |-> 0, vega |-> 0,
       rho |-> 0, dividendRho |-> 0],
      [value |-> 1, delta |-> 1, gamma |-> 2, theta |-> -1, vega |-> 3,
       rho |-> 2, dividendRho |-> -2],
      [value |-> 3, delta |-> 2, gamma |-> 1, theta |-> -2, vega |-> 1,
       rho |-> 4, dividendRho |-> -3] }

NoResults == [f \in Fields |-> 0]

\* results left in the engine by an earlier call
StaleResults == [f \in Fields |-> 5]

NoQuotient == <<0, 1>>

----------------------------------------------------------------------------
(* Arithmetic *)

\* QL_EXP at the arguments the model uses, in units of 1/One
ExpFixed(x) ==
    CASE x = -2 -> 1
      [] x = 0  -> One
      [] x = 2  -> 59

\* a > b for quotients; b has a positive divisor
Greater(a, b) ==
    IF a[2] = 0 THEN a[1] > 0
    ELSE IF a[2] > 0 THEN a[1] * b[2] > b[1] * a[2]
    ELSE a[1] * b[2] < b[1] * a[2]

\* a <= b for quotients (false when a is NaN)
LessEq(a, b) ==
    IF a[2] = 0 THEN a[1] < 0
    ELSE IF a[2] > 0 THEN a[1] * b[2] <= b[1] * a[2]
    ELSE a[1] * b[2] >= b[1] * a[2]

----------------------------------------------------------------------------
(* Collaborators *)

\* jdProcess->volTS->blackVariance(lastDate): a flat surface, sigma^2 * t
BlackVariance(process) == process.sigma2 * process.t

\* -QL_LOG(jdProcess->riskFreeTS->discount(lastDate)): a flat curve, rate * t
NegLogDiscount(process) == process.rate * process.t

\* PoissonDistribution p(mean); p(n): the values p(n) may take.  With mean 0
\* the distribution is the point mass at 0; otherwise every mass is positive
\* and below one.
PoissonWeights(mean, n) ==
    IF mean = 0 THEN {IF n = 0 THEN One ELSE 0} ELSE {1, 3}

\* baseEngine_->reset()
EngineReset(e) ==
    [e EXCEPT !.results = NoResults, !.calls = Append(@, "reset")]

\* baseArguments->payoff = ..., ->exercise = ..., ->blackScholesProcess = ...
SetArguments(e, process) ==
    [e EXCEPT !.arguments = [payoff |-> "payoff", exercise |-> "exercise",
                             riskFreeTS |-> <<"original", process.rate>>,
                             volTS |-> <<"original", process.sigma2>>],
              !.calls = @ \o <<"write", "write", "write">>]

\* ->riskFreeTS = FlatForward(r), ->volTS = BlackConstantVol(v)
SetCurves(e, rate, vol) ==
    [e EXCEPT !.arguments.riskFreeTS = <<"flat", rate>>,
              !.arguments.volTS = <<"flat", vol>>,
              !.calls = @ \o <<"write", "write">>]

\* the validate() call left out
ArgumentsValidateSkipped(e) == e

\* baseArguments->validate()
ArgumentsValidate(e) == [e EXCEPT !.calls = Append(@, "validate")]

\* baseEngine_->calculate(), returning res
EngineCalculate(e, res) ==
    [e EXCEPT !.results = res, !.calls = Append(@, "calculate")]

----------------------------------------------------------------------------
(* The statements of calculate() *)

\* the requirement left out
RequireAnything(process) == TRUE

\* QL_REQUIRE(!IsNull(jdProcess), ...): the downcast gave a Merton76 process
RequireJumpDiffusion(process) == process.kind = "Merton76"

\* the scalars of lines 51-70
Extract(process) ==
    LET jumpSquareVol == process.logJumpVolatility * process.logJumpVolatility
        muPlusHalfSquareVol == process.logJumpMean + jumpSquareVol \div 2
        k == ExpFixed(muPlusHalfSquareVol) - One
        lambda == (k + One) * process.jumpIntensity
        t == process.t
    IN  [computed |-> TRUE,
         jumpSquareVol |-> jumpSquareVol,
         muPlusHalfSquareVol |-> muPlusHalfSquareVol,
         k |-> k,
         lambda |-> lambda,
         variance |-> BlackVariance(process),
         t |-> t,
         riskFreeRate |-> <<NegLogDiscount(process), t>>,
         mean |-> lambda * t]

\* v = QL_SQRT((variance + i*jumpSquareVol)/t): the quotient under the root
ScenarioVol(s, n) == <<s.variance + n * s.jumpSquareVol, s.t>>

\* r = riskFreeRate - jumpIntensity*k + i*muPlusHalfSquareVol/t, over One*t
ScenarioRate(s, process, n) ==
    <<One * s.riskFreeRate[1] - process.jumpIntensity * s.k * s.t
          + One * n * s.muPlusHalfSquareVol,
      One * s.t>>

\* the loop condition with >= written for >
LoopGuardInclusive(lc, acc, n, max) ==
    /\ Greater(lc, acc) \/ (lc[2] # 0 /\ lc[1] * acc[2] = acc[1] * lc[2])
    /\ n < max

\* lastContribution>relativeAccuracy_ && i<maxIterations_
LoopGuard(lc, acc, n, max) == Greater(lc, acc) /\ n < max

\* the accumulation with rho fed from dividendRho
AccumulateRhoSlip(res, w, base) ==
    [f \in Fields |->
        res[f] + w * (IF f = "rho" THEN base["dividendRho"] ELSE base[f])]

\* results_.field += weight * baseResults->field, for the seven fields
Accumulate(res, w, base) == [f \in Fields |-> res[f] + w * base[f]]

\* weight * baseResults->value / results_.value
Contribution(w, base, res) == <<w * base.value, res.value>>

\* the exit check with <= written for <
EnsureHoldsInclusive(n, max) == n <= max

\* QL_ENSURE(i<maxIterations_, ...)
EnsureHolds(n, max) == n < max

----------------------------------------------------------------------------
(* State machine *)

Init ==
    /\ \E kind \in ProcessKinds, jp \in JumpParameters,
          ji \in JumpIntensities, t \in 0..MaxTime :
          arguments_ = [kind |-> kind, logJumpMean |-> jp[1],
                        logJumpVolatility |-> jp[2], jumpIntensity |-> ji,
                        t |-> t, sigma2 |-> 1, rate |-> 1]
    /\ relativeAccuracy_ \in RelativeAccuracies
    /\ maxIterations_ \in 0..MaxIterations
    /\ baseEngine_ = [arguments |-> "stale", results |-> StaleResults,
                      calls |-> <<>>]
    /\ results_ = StaleResults
    /\ initial = [results |-> results_, baseEngine |-> baseEngine_]
    /\ pc = "start"
    /\ jd = [computed |-> FALSE]
    /\ i = 0
    /\ r = NoQuotient
    /\ v = NoQuotient
    /\ weight = 0
    /\ lastContribution = NoQuotient
    /\ failure = "none"
    /\ history = <<>>

\* lines 40-49
Downcast ==
    /\ pc = "start"
    /\ IF RequireJumpDiffusion(arguments_)
       THEN pc' = "extract" /\ failure' = failure
       ELSE pc' = "failed" /\ failure' = NotJumpDiffusion
    /\ UNCHANGED <<inputs, baseEngine_, results_, jd, i, r, v, weight,
                   lastContribution, history>>

\* lines 51-70
ExtractParameters ==
    /\ pc = "extract"
    /\ jd' = Extract(arguments_)
    /\ pc' = "reset"
    /\ UNCHANGED <<inputs, baseEngine_, results_, i, r, v, weight,
                   lastContribution, failure, history>>

\* line 72
Reset ==
    /\ pc = "reset"
    /\ baseEngine_' = EngineReset(baseEngine_)
    /\ pc' = "setup"
    /\ UNCHANGED <<inputs, results_, jd, i, r, v, weight, lastContribution,
                   failure, history>>

\* lines 74-84
Setup ==
    /\ pc = "setup"
    /\ baseEngine_' = SetArguments(baseEngine_, arguments_)
    /\ pc' = "validate0"
    /\ UNCHANGED <<inputs, results_, jd, i, r, v, weight, lastContribution,
                   failure, history>>

\* line 86
ValidateSetup ==
    /\ pc = "validate0"
    /\ baseEngine_' = ArgumentsValidate(baseEngine_)
    /\ pc' = "zero"
    /\ UNCHANGED <<inputs, results_, jd, i, r, v, weight, lastContribution,
                   failure, history>>

\* lines 88-104: results zeroed, lastContribution = 1.0, i = 0
ZeroResults ==
    /\ pc = "zero"
    /\ results_' = NoResults
    /\ lastContribution' = <<1, 1>>
    /\ i' = 0
    /\ pc' = "loop"
    /\ UNCHANGED <<inputs, baseEngine_, jd, r, v, weight, failure, history>>

\* lines 104-106: the loop condition
Loop ==
    /\ pc = "loop"
    /\ pc' = IF LoopGuard(lastContribution, relativeAccuracy_, i, maxIterations_)
             THEN "build" ELSE "ensure"
    /\ UNCHANGED <<inputs, baseEngine_, results_, jd, i, r, v, weight,
                   lastContribution, failure, history>>

\* lines 109-119
Build ==
    /\ pc = "build"
    /\ v' = ScenarioVol(jd, i)
    /\ r' = ScenarioRate(jd, arguments_, i)
    /\ baseEngine_' = SetCurves(baseEngine_, r', v')
    /\ pc' = "validate"
    /\ UNCHANGED <<inputs, results_, jd, i, weight, lastContribution, failure,
                   history>>

\* line 122
Validate ==
    /\ pc = "validate"
    /\ baseEngine_' = ArgumentsValidate(baseEngine_)
    /\ pc' = "calculate"
    /\ UNCHANGED <<inputs, results_, jd, i, r, v, weight, lastContribution,
                   failure, history>>

\* line 123
BaseCalculate ==
    /\ pc = "calculate"
    /\ \E res \in BaseResults : baseEngine_' = EngineCalculate(baseEngine_, res)
    /\ pc' = "accumulate"
    /\ UNCHANGED <<inputs, results_, jd, i, r, v, weight, lastContribution,
                   failure, history>>

\* lines 126-135, and the i++ of line 106
AccumulateScenario ==
    /\ pc = "accumulate"
    /\ \E w \in PoissonWeights(jd.mean, i) :
          /\ weight' = w
          /\ results_' = Accumulate(results_, w, baseEngine_.results)
          /\ lastContribution' = Contribution(w, baseEngine_.results, results_')
          /\ history' = Append(history, [scenario |-> i, weight |-> w,
                                         base |-> baseEngine_.results])
    /\ i' = i + 1
    /\ pc' = "loop"
    /\ UNCHANGED <<inputs, baseEngine_, jd, r, v, failure>>

\* lines 137-151
Ensure ==
    /\ pc = "ensure"
    /\ IF EnsureHolds(i, maxIterations_)
       THEN pc' = "done" /\ failure' = failure
       ELSE pc' = "failed" /\ failure' = AccuracyNotReached
    /\ UNCHANGED <<inputs, baseEngine_, results_, jd, i, r, v, weight,
                   lastContribution, history>>

Next ==
    \/ Downcast
    \/ ExtractParameters
    \/ Reset
    \/ Setup
    \/ ValidateSetup
    \/ ZeroResults
    \/ Loop
    \/ Build
    \/ Validate
    \/ BaseCalculate
    \/ AccumulateScenario
    \/ Ensure

Spec == Init /\ [][Next]_vars

----------------------------------------------------------------------------
(* Auxiliary definitions of the properties *)

Terminal == pc \in {"done", "failed"}

\* the exercise date lies after the reference date
PositiveTime == arguments_.t > 0

RECURSIVE SumField(_, _)
\* the weighted sum of field f over the accumulated scenarios h
SumField(h, f) ==
    IF h = <<>> THEN 0
    ELSE SumField(SubSeq(h, 1, Len(h) - 1), f)
             + h[Len(h)].weight * h[Len(h)].base[f]

WeightedSums == [f \in Fields |-> SumField(history, f)]

Calculations == {j \in 1..Len(baseEngine_.calls) : baseEngine_.calls[j] = "calculate"}

\* the premise of the degenerate-jump case: no jumps, so the weight source
\* returned 1 for scenario 0 and 0 for every later one
DegenerateCase ==
    /\ Terminal
    /\ arguments_.kind = "Merton76"
    /\ arguments_.jumpIntensity = 0
    /\ maxIterations_ >= 1
    /\ Greater(<<1, 1>>, relativeAccuracy_)
    /\ history # <<>>
    /\ history[1].base.value # 0
    /\ \A j \in 1..Len(history) :
          history[j].weight = (IF j = 1 THEN One ELSE 0)

----------------------------------------------------------------------------
(* Properties *)

\* C1: non-convergence is always reported.  A call that evaluated the
\* scenarios 0..maxIterations-1 and whose last contribution is still greater
\* than relativeAccuracy ends in the "accuracy not reached" failure, never in
\* success.
NonConvergenceReported ==
    (/\ Terminal
     /\ arguments_.kind = "Merton76"
     /\ Len(history) = maxIterations_
     /\ Greater(lastContribution, relativeAccuracy_))
    => (pc = "failed" /\ failure = AccuracyNotReached)

NonConvergenceWitness ==
    /\ pc = "failed"
    /\ failure = AccuracyNotReached
    /\ maxIterations_ >= 2
    /\ Len(history) = maxIterations_
    /\ Greater(lastContribution, relativeAccuracy_)

\* C2: converged and exhausted are never conflated.  Every call whose last
\* evaluated scenario has a contribution <= relativeAccuracy ends in success,
\* also when that scenario is maxIterations-1.
ConvergedIsSuccess ==
    (/\ Terminal
     /\ PositiveTime
     /\ history # <<>>
     /\ LessEq(lastContribution, relativeAccuracy_))
    => pc = "done"

\* C3: no partial-result mode.  After a failed call that accumulated some
\* scenarios the result fields do not hold the partial weighted sums.
NoPartialResult ==
    (/\ pc = "failed"
     /\ PositiveTime
     /\ history # <<>>
     /\ WeightedSums # NoResults)
    => results_ # WeightedSums

\* C4: a process that is not a jump-diffusion process makes the call fail
\* with "not a jump diffusion process" before anything is computed, before
\* the base engine is reset, written, validated or run and before any result
\* field is written.
NotJumpDiffusionFailsFirst ==
    arguments_.kind # "Merton76"
    => /\ pc \in {"start", "failed"}
       /\ pc = "failed" => failure = NotJumpDiffusion
       /\ ~jd.computed
       /\ baseEngine_ = initial.baseEngine
       /\ results_ = initial.results

NotJumpDiffusionWitness ==
    /\ arguments_.kind # "Merton76"
    /\ pc = "failed"
    /\ failure = NotJumpDiffusion

\* C5: base engine lifecycle.  Every calculate() of the base engine is
\* preceded by a validate() with no argument write between the two, and every
\* argument write is preceded by the reset().
LifecycleOrdered ==
    LET c == baseEngine_.calls
    IN  \A j \in 1..Len(c) :
           /\ c[j] = "calculate"
              => \E m \in 1..(j - 1) :
                    /\ c[m] = "validate"
                    /\ \A n \in (m + 1)..(j - 1) : c[n] # "write"
           /\ c[j] = "write" => \E m \in 1..(j - 1) : c[m] = "reset"

LifecycleWitness == Cardinality(Calculations) >= 2

\* C6: on success every result field is the sum, from zero, over the
\* evaluated scenarios 0..n-1 of weight_i times the base engine's field for
\* scenario i, each scenario once, the same weight p(i) for the seven fields.
ResultsAreWeightedSums ==
    pc = "done"
    => /\ results_ = WeightedSums
       /\ Len(history) = i
       /\ \A j \in 1..Len(history) :
             /\ history[j].scenario = j - 1
             /\ history[j].weight \in PoissonWeights(jd.mean, j - 1)

ResultsAreWeightedSumsWitness ==
    /\ pc = "done"
    /\ Len(history) >= 2
    /\ history[2].weight > 0
    /\ history[2].base.value > 0

ZeroPriceGuarded == (pc = "loop" /\ PositiveTime) => lastContribution[2] # 0

\* C9: with a time to expiry t <= 0 the call fails before the base rate is
\* computed (t is never a divisor), before the base engine is touched and
\* before any result field is written.
NonPositiveTimeFailsFast ==
    (arguments_.kind = "Merton76" /\ arguments_.t <= 0)
    => /\ ~jd.computed
       /\ pc \in {"start", "extract", "failed"}
       /\ baseEngine_ = initial.baseEngine
       /\ results_ = initial.results

\* C10: a successful call has run the base engine at least once and returns
\* a sum of at least one weighted scenario.
SuccessPricesSomething ==
    (pc = "done" /\ PositiveTime) => (history # <<>> /\ Calculations # {})

====
